---- MODULE Spec2Model ----
(***************************************************************************)
(* Tuned-Mass-Damper simulator: the RK4 integrator of                      *)
(* src/services/physicsEngine.ts and the React component App that drives   *)
(* it.                                                                     *)
(*                                                                         *)
(* JavaScript numbers are modelled as exact rationals n/d (d > 0, lowest   *)
(* terms) extended with the IEEE-754 special values the code can produce:  *)
(* d = 0 encodes +Infinity (n = 1), -Infinity (n = -1) and NaN (n = 0).    *)
(* Rounding of finite results is not modelled.                             *)
(***************************************************************************)
EXTENDS Integers, Sequences, FiniteSets, TLC

VARIABLES
    start,      \* the state the caller created the simulation with
    state,      \* the caller's stored SimulationState (simulationState.current)
    dt,         \* the timestep the caller passes to every step
    params,     \* the SystemParams the caller passes to every step
    arg,        \* the state object passed to the last integrateRK4 call
    calls,      \* the evaluate calls the last integrateRK4 call made, in order
    outcome,    \* how the last integrateRK4 call completed ("none" before any)
    nsteps,     \* number of integrateRK4 calls made so far
    objects,    \* the SimulationState objects allocated so far, by reference
    ref,        \* the reference the caller holds: objects[ref] is its state
    sims,       \* two callers sharing the module: each one's reference, dt,
                \* params and the states it has held so far
    mode,         \* App: the mode state, "LEARN" or "SIMULATE"
    visualState,  \* App: the visualState state
    history,      \* App: the history state, the chart's data
    updates,      \* App: the state updates queued for the next render
    requestRef,   \* App: requestRef.current, 0 for null
    isRunning,    \* App: isRunning.current
    frames,       \* the animation frame callbacks the browser has pending
    lastId,       \* the last handle requestAnimationFrame returned
    last,         \* App: the handler or callback that ran last
    nevents,      \* App: number of user events handled so far
    samples,      \* App: the entries appended to history since the last reset
    view,         \* MascotVisualizer: the view state, "3D" or "2D"
    forces,       \* LearnMode: the forces state
    feedback,     \* LearnMode: the feedback state, "null" for null
    forceStep,    \* LearnMode: the forceStep state, 1 or 2
    timeouts,     \* number of pending timeouts set by the mounted LearnMode
    stale         \* number of pending timeouts set by a LearnMode since unmounted

engineVars == <<start, state, dt, params, arg, calls, outcome, nsteps, ref>>
learnVars == <<forces, feedback, forceStep, timeouts, stale>>
appVars ==
    <<mode, visualState, history, updates, requestRef, isRunning, frames, lastId,
      last, nevents, samples, view, forces, feedback, forceStep, timeouts, stale>>
vars ==
    <<start, state, dt, params, arg, calls, outcome, nsteps, objects, ref, sims,
      mode, visualState, history, updates, requestRef, isRunning, frames, lastId,
      last, nevents, samples, view, forces, feedback, forceStep, timeouts, stale>>

----------------------------------------------------------------------------
(* Bounds of the model *)

MaxSteps == 2

\* number of user events (mode buttons, sliders, reset) App handles
MaxEvents == 3

\* number of timeouts of LearnMode pending at a time
MaxTimeouts == 1

\* number of queued updates with which the browser still runs an animation
\* frame callback before React renders: with 2, a callback can run while the
\* setVisualState and setHistory of the callback before it are still queued
MaxPending == 2

----------------------------------------------------------------------------
(* const declarations: Only({F(v) : v \in {e}}) evaluates the initializer e *)
(* once, names its value v and is F(v)                                      *)

Only(S) == CHOOSE x \in S : TRUE

----------------------------------------------------------------------------
(* JavaScript number arithmetic *)

Abs(i) == IF i < 0 THEN -i ELSE i

Sgn(i) == IF i > 0 THEN 1 ELSE IF i < 0 THEN -1 ELSE 0

RECURSIVE GCD(_, _)
GCD(i, j) == IF j = 0 THEN i ELSE Only({GCD(j, r) : r \in {i % j}})

\* n/d reduced by their common divisor g, with a positive denominator
Reduce(n, d, g) == [n |-> Sgn(d) * (n \div g), d |-> Abs(d) \div g]

\* the rational n/d, d # 0, in lowest terms with a positive denominator
NormOf(n, d) == Only({Reduce(n, d, g) : g \in {GCD(Abs(n), Abs(d))}})
Norm(x, y) == Only({NormOf(n, d) : n \in {x}, d \in {y}})

Int2Num(i) == [n |-> i, d |-> 1]
Zero == Int2Num(0)
NaN == [n |-> 0, d |-> 0]
Infinity(s) == [n |-> s, d |-> 0]

IsNaN(a) == a.d = 0 /\ a.n = 0
IsInf(a) == a.d = 0 /\ a.n # 0
IsFinite(a) == a.d > 0

\* unary minus
NegOf(a) == [n |-> -(a.n), d |-> a.d]
Neg(x) == Only({NegOf(a) : a \in {x}})

\* the sum of the finite a and b over the denominators' common multiple
AddFinite(a, b) ==
    Only({Norm(a.n * (b.d \div g) + b.n * (a.d \div g), (a.d \div g) * b.d) :
             g \in {GCD(a.d, b.d)}})

\* a + b
AddOf(a, b) ==
    IF IsNaN(a) \/ IsNaN(b) THEN NaN
    ELSE IF IsInf(a) /\ IsInf(b) THEN (IF a.n = b.n THEN a ELSE NaN)
    ELSE IF IsInf(a) THEN a
    ELSE IF IsInf(b) THEN b
    ELSE AddFinite(a, b)
Add(x, y) == Only({AddOf(a, b) : a \in {x}, b \in {y}})

\* a - b
Sub(x, y) == Add(x, Neg(y))

\* the product of the finite a and b, reduced before multiplying
MulFinite(a, b) ==
    Only({Norm((a.n \div g) * (b.n \div h), (a.d \div h) * (b.d \div g)) :
             g \in {GCD(Abs(a.n), b.d)}, h \in {GCD(Abs(b.n), a.d)}})

\* a * b
MulOf(a, b) ==
    IF IsNaN(a) \/ IsNaN(b) THEN NaN
    ELSE IF IsInf(a) \/ IsInf(b)
         THEN (IF a.n = 0 \/ b.n = 0 THEN NaN ELSE Infinity(Sgn(a.n) * Sgn(b.n)))
    ELSE MulFinite(a, b)
Mul(x, y) == Only({MulOf(a, b) : a \in {x}, b \in {y}})

\* a / b, the divisor's zero being +0 (the masses and the literal 6.0)
DivOf(a, b) ==
    IF IsNaN(a) \/ IsNaN(b) THEN NaN
    ELSE IF IsInf(a) /\ IsInf(b) THEN NaN
    ELSE IF IsInf(a) THEN Infinity(IF b.n < 0 THEN -(a.n) ELSE a.n)
    ELSE IF IsInf(b) THEN Zero
    ELSE IF b.n = 0 THEN (IF a.n = 0 THEN NaN ELSE Infinity(Sgn(a.n)))
    ELSE MulFinite(a, [n |-> Sgn(b.n) * b.d, d |-> Abs(b.n)])
Div(x, y) == Only({DivOf(a, b) : a \in {x}, b \in {y}})

\* the sine of a finite number a of turns; exact on the quarter turns, the
\* only arguments the bounded inputs produce
SinTurns(a) ==
    CASE (4 * a.n) % (4 * a.d) = 0       -> Zero
      [] (4 * a.n) % (4 * a.d) = a.d     -> Int2Num(1)
      [] (4 * a.n) % (4 * a.d) = 2 * a.d -> Zero
      [] (4 * a.n) % (4 * a.d) = 3 * a.d -> Int2Num(-1)

\* Math.sin(2 * Math.PI * x): NaN for a non-finite argument
MathSin2PiOf(a) == IF ~IsFinite(a) THEN NaN ELSE SinTurns(a)
MathSin2Pi(x) == Only({MathSin2PiOf(a) : a \in {x}})

----------------------------------------------------------------------------
(* evaluate *)

ZeroDerivative == [dx1 |-> Zero, dv1 |-> Zero, dx2 |-> Zero, dv2 |-> Zero]

\* the trial state with the velocities of the input state
Trial_InputVelocity(s, h, d) ==
    [x1 |-> Add(s.x1, Mul(d.dx1, h)),
     v1 |-> s.v1,
     x2 |-> Add(s.x2, Mul(d.dx2, h)),
     v2 |-> s.v2]

\* the trial state x1, v1, x2, v2 of evaluate
Trial(s, h, d) ==
    [x1 |-> Add(s.x1, Mul(d.dx1, h)),
     v1 |-> Add(s.v1, Mul(d.dv1, h)),
     x2 |-> Add(s.x2, Mul(d.dx2, h)),
     v2 |-> Add(s.v2, Mul(d.dv2, h))]

\* the drive without its amplitude factor
Force_NoAmplitude(t, p) == MathSin2Pi(Mul(p.forceFrequency, t))

\* External Force F(t) = F_amp * sin(2 * pi * f * t)
Force(t, p) == Mul(p.forceAmplitude, MathSin2Pi(Mul(p.forceFrequency, t)))

springForce2(tr, p) == Mul(p.k2, Sub(tr.x2, tr.x1))

\* the damper force with a negative b2 replaced by 0
dampingForce2_Clamped(tr, p) ==
    Mul(IF p.b2.n < 0 THEN Zero ELSE p.b2, Sub(tr.v2, tr.v1))

dampingForce2(tr, p) == Mul(p.b2, Sub(tr.v2, tr.v1))

\* F_net_1 with the damper of body 1 pushing instead of resisting
F_net_1_DampingSign(tr, t, p) ==
    Add(Add(Add(Add(Mul(Neg(p.k1), tr.x1), Mul(p.b1, tr.v1)),
                springForce2(tr, p)),
            dampingForce2(tr, p)),
        Force(t, p))

\* F_net_1 without the coupling damper
F_net_1_NoCouplingDamper(tr, t, p) ==
    Add(Add(Sub(Mul(Neg(p.k1), tr.x1), Mul(p.b1, tr.v1)),
            springForce2(tr, p)),
        Force(t, p))

F_net_1(tr, t, p) ==
    Add(Add(Add(Sub(Mul(Neg(p.k1), tr.x1), Mul(p.b1, tr.v1)),
                springForce2(tr, p)),
            dampingForce2(tr, p)),
        Force(t, p))

\* F_net_2 with the coupling acting on body 2 as it acts on body 1
F_net_2_SameSign(tr, p) == Add(springForce2(tr, p), dampingForce2(tr, p))

\* F_net_2 with the spring of body 1 also pulling on body 2
F_net_2_OwnSpring(tr, p) ==
    Sub(Sub(Neg(springForce2(tr, p)), dampingForce2(tr, p)), Mul(p.k1, tr.x2))

F_net_2(tr, p) == Sub(Neg(springForce2(tr, p)), dampingForce2(tr, p))

\* the object evaluate returns, from its trial state
Derivative(tr, t, p) ==
    [dx1 |-> tr.v1,
     dv1 |-> Div(F_net_1(tr, t, p), p.m1),
     dx2 |-> tr.v2,
     dv2 |-> Div(F_net_2(tr, p), p.m2)]

\* evaluate reading the time of the state instead of its argument t
evaluate_StateTime(s, t, h, d, p) ==
    Only({Derivative(tr, s.t, p) : tr \in {Trial(s, h, d)}})

evaluate(s, t, h, d, p) == Only({Derivative(tr, t, p) : tr \in {Trial(s, h, d)}})

----------------------------------------------------------------------------
(* integrateRK4 *)

Half == Norm(1, 2)
Sixth == Div(Int2Num(1), Int2Num(6))
Two == Int2Num(2)

\* one evaluate call as the integrator makes it: its arguments and its result
CallOf(s, t, h, d, p) ==
    [state |-> s, t |-> t, dt |-> h, d |-> d, out |-> evaluate(s, t, h, d, p)]
Call(s, t, h, d, p) == Only({CallOf(s, tv, hv, d, p) : tv \in {t}, hv \in {h}})

\* the average without the doubled midpoint stages
Weighted_NoDouble(a, b, c, d) == Mul(Sixth, Add(Add(a, Add(b, c)), d))

\* (1.0 / 6.0) * (a + 2.0 * (b + c) + d)
Weighted(a, b, c, d) == Mul(Sixth, Add(Add(a, Mul(Two, Add(b, c))), d))

\* the calls that compute a, b, c and d
StageA(s, h, p) == Call(s, s.t, Zero, ZeroDerivative, p)
StageB(s, h, p, a) == Call(s, Add(s.t, Mul(h, Half)), Mul(h, Half), a, p)
StageC(s, h, p, b) == Call(s, Add(s.t, Mul(h, Half)), Mul(h, Half), b, p)
\* the fourth stage probing the midpoint again
StageD_Midpoint(s, h, p, c) == Call(s, Add(s.t, Mul(h, Half)), Mul(h, Half), c, p)

StageD(s, h, p, c) == Call(s, Add(s.t, h), h, c, p)

\* the four stages of integrateRK4, in call order
Stages(s, h, p) ==
    Only({ Only({ Only({ Only({ <<a, b, c, d>>
        : d \in {StageD(s, h, p, c.out)} })
        : c \in {StageC(s, h, p, b.out)} })
        : b \in {StageB(s, h, p, a.out)} })
        : a \in {StageA(s, h, p)} })

\* the returned object with the time advanced by half a step
NextState_HalfTime(s, h, a, b, c, d) ==
    [t  |-> Add(s.t, Mul(h, Half)),
     x1 |-> Add(s.x1, Mul(Weighted(a.dx1, b.dx1, c.dx1, d.dx1), h)),
     v1 |-> Add(s.v1, Mul(Weighted(a.dv1, b.dv1, c.dv1, d.dv1), h)),
     x2 |-> Add(s.x2, Mul(Weighted(a.dx2, b.dx2, c.dx2, d.dx2), h)),
     v2 |-> Add(s.v2, Mul(Weighted(a.dv2, b.dv2, c.dv2, d.dv2), h))]

\* the object integrateRK4 returns, from its four stage results
NextState(s, h, a, b, c, d) ==
    [t  |-> Add(s.t, h),
     x1 |-> Add(s.x1, Mul(Weighted(a.dx1, b.dx1, c.dx1, d.dx1), h)),
     v1 |-> Add(s.v1, Mul(Weighted(a.dv1, b.dv1, c.dv1, d.dv1), h)),
     x2 |-> Add(s.x2, Mul(Weighted(a.dx2, b.dx2, c.dx2, d.dx2), h)),
     v2 |-> Add(s.v2, Mul(Weighted(a.dv2, b.dv2, c.dv2, d.dv2), h))]

\* what a call of integrateRK4 that made the calls st hands back
Returned(s, h, st) ==
    [kind |-> "returned",
     calls |-> st,
     value |-> NextState(s, h, st[1].out, st[2].out, st[3].out, st[4].out)]

\* integrateRK4 has no throw and no validation: it always returns
integrateRK4(s, h, p) == Only({Returned(s, h, st) : st \in {Stages(s, h, p)}})

\* the result written into the object the call was given, which is returned
ReturnObject_InPlace(objs, r, v) == [objects |-> [objs EXCEPT ![r] = v], ref |-> r]

\* return { t: ..., x1: ..., v1: ..., x2: ..., v2: ... }: the object store
\* after a call given the object at r has returned the value v, and the
\* reference it returned; no statement of integrateRK4 or evaluate assigns to
\* a field of an argument
ReturnObject(objs, r, v) == [objects |-> Append(objs, v), ref |-> Len(objs) + 1]

----------------------------------------------------------------------------
(* Inputs *)

StateValues == {Int2Num(0), Int2Num(1)}
TimeValues == {Int2Num(0)}
DtValues == {Int2Num(-2), Int2Num(0), Int2Num(2)}
\* <<m1, m2>>: two valid pairs, and a zero and a negative value of each mass
MassPairs == {<<2, 1>>, <<2, 2>>}
InvalidMassPairs == {<<0, 1>>, <<2, 0>>, <<-2, 1>>, <<2, -1>>}
StiffnessValues == {Int2Num(0), Int2Num(1)}
DampingValues == {Int2Num(0), Int2Num(1)}
AmplitudeValues == {Int2Num(0), Int2Num(2)}
FrequencyValues == {Norm(1, 4)}

\* the system at rest, with one coordinate off equilibrium, or with all four
SimulationState ==
    {s \in [t : TimeValues, x1 : StateValues, v1 : StateValues,
            x2 : StateValues, v2 : StateValues] :
        s.x1.n + s.v1.n + s.x2.n + s.v2.n \in {0, 1, 4}}

\* positive masses with k1 = b1 = k2 = b2 = 1, amplitude 2 and frequency 1/4
OrdinaryParams ==
    [m1 |-> Int2Num(2), k1 |-> Int2Num(1), b1 |-> Int2Num(1),
     m2 |-> Int2Num(1), k2 |-> Int2Num(1), b2 |-> Int2Num(1),
     forceAmplitude |-> Int2Num(2), forceFrequency |-> Norm(1, 4)]

NegativeFields == {"k1", "b1", "k2", "b2", "forceAmplitude", "forceFrequency"}

\* OrdinaryParams with one of the six parameters negated, and with all six
NegativeParams ==
    {[OrdinaryParams EXCEPT ![f] = Neg(@)] : f \in NegativeFields}
        \cup {[f \in DOMAIN OrdinaryParams |->
                   IF f \in NegativeFields THEN Neg(OrdinaryParams[f])
                   ELSE OrdinaryParams[f]]}

\* body 2 decoupled (k2 = b2 = 0) from a body 1 of mass 0
DecoupledParams ==
    {[OrdinaryParams EXCEPT !.m1 = Zero, !.k2 = Zero, !.b2 = Zero,
                            !.forceAmplitude = a] : a \in AmplitudeValues}

SystemParams ==
    {[m1 |-> Int2Num(m[1]), k1 |-> q.k1, b1 |-> q.b1,
      m2 |-> Int2Num(m[2]), k2 |-> q.k2, b2 |-> q.b2,
      forceAmplitude |-> q.forceAmplitude, forceFrequency |-> q.forceFrequency] :
        m \in MassPairs,
        q \in [k1 : StiffnessValues, b1 : DampingValues,
               k2 : StiffnessValues, b2 : DampingValues,
               forceAmplitude : AmplitudeValues,
               forceFrequency : FrequencyValues]}
        \cup {[OrdinaryParams EXCEPT !.m1 = Int2Num(m[1]), !.m2 = Int2Num(m[2]),
                                     !.forceAmplitude = a] :
                 m \in InvalidMassPairs, a \in AmplitudeValues}
        \cup NegativeParams
        \cup DecoupledParams

----------------------------------------------------------------------------
(* The caller threading one simulation through the integrator *)

ZeroState == [t |-> Zero, x1 |-> Zero, v1 |-> Zero, x2 |-> Zero, v2 |-> Zero]

\* the forces offered in the force-identification exercise of LearnMode
Force_(i, tg, c) == [id |-> i, target |-> tg, isCorrect |-> c, selected |-> FALSE]

INITIAL_FORCES ==
    <<Force_("k1", "m1", TRUE), Force_("b1", "m1", TRUE),
      Force_("k2_on_1", "m1", TRUE), Force_("b2_on_1", "m1", TRUE),
      Force_("wind", "m1", TRUE), Force_("gravity", "m1", FALSE),
      Force_("k2_on_2", "m2", TRUE), Force_("b2_on_2", "m2", TRUE),
      Force_("wind_on_2", "m2", FALSE)>>

\* the state of a LearnMode just mounted
LearnModeMounted ==
    /\ forces = INITIAL_FORCES
    /\ feedback = "null"
    /\ forceStep = 1

\* App as mounted: LEARN mode, nothing running, nothing pending
Mounted ==
    /\ mode = "LEARN"
    /\ visualState = ZeroState
    /\ history = <<>>
    /\ updates = <<>>
    /\ requestRef = 0
    /\ isRunning = FALSE
    /\ frames = {}
    /\ lastId = 0
    /\ last = "mount"
    /\ nevents = 0
    /\ samples = <<>>
    /\ view = "3D"
    /\ LearnModeMounted
    /\ timeouts = 0
    /\ stale = 0

Init ==
    /\ start \in SimulationState
    /\ state = start
    /\ dt \in DtValues
    /\ params \in SystemParams
    /\ arg = state
    /\ calls = <<>>
    /\ outcome = "none"
    /\ nsteps = 0
    /\ objects = <<start>>
    /\ ref = 1
    /\ sims = <<>>
    /\ Mounted

\* state = integrateRK4(state, dt, params)
Step ==
    /\ nsteps < MaxSteps
    /\ \E r \in {integrateRK4(objects[ref], dt, params)} :
       \E o \in {ReturnObject(objects, ref, r.value)} :
           /\ arg' = objects[ref]
           /\ calls' = r.calls
           /\ outcome' = r.kind
           /\ objects' = o.objects
           /\ ref' = o.ref
           /\ state' = o.objects[o.ref]
    /\ nsteps' = nsteps + 1
    /\ UNCHANGED <<start, dt, params, sims>>
    /\ UNCHANGED appVars

Next == Step

Spec == Init /\ [][Next]_vars

----------------------------------------------------------------------------
(* Two independent simulations calling the same integrateRK4 in any order *)

\* what each of the two callers starts from and steps with
PairConfigs ==
    [start : {ZeroState, [ZeroState EXCEPT !.x2 = Int2Num(1)]},
     dt : {Int2Num(2)},
     params : {OrdinaryParams, [OrdinaryParams EXCEPT !.m2 = Int2Num(2), !.b1 = Zero]}]

\* a caller with the configuration c holding the object at r
Caller(c, r) == [ref |-> r, dt |-> c.dt, params |-> c.params, trace |-> <<c.start>>]

\* the two callers create their states; two callers that start from the same
\* value may have been handed one and the same initial object
PairInit ==
    /\ \E c1 \in PairConfigs, c2 \in PairConfigs, shared \in BOOLEAN :
           /\ shared => c1.start = c2.start
           /\ objects = IF shared THEN <<c1.start>> ELSE <<c1.start, c2.start>>
           /\ sims = <<Caller(c1, 1), Caller(c2, IF shared THEN 1 ELSE 2)>>
    /\ start = ZeroState
    /\ state = ZeroState
    /\ dt = Zero
    /\ params = OrdinaryParams
    /\ arg = ZeroState
    /\ calls = <<>>
    /\ outcome = "none"
    /\ nsteps = 0
    /\ ref = 1
    /\ Mounted

\* caller i: state = integrateRK4(state, dt, params)
SimStep(i) ==
    /\ Len(sims[i].trace) <= MaxSteps
    /\ \E r \in {integrateRK4(objects[sims[i].ref], sims[i].dt, sims[i].params)} :
       \E o \in {ReturnObject(objects, sims[i].ref, r.value)} :
           /\ objects' = o.objects
           /\ sims' = [sims EXCEPT ![i].ref = o.ref,
                                   ![i].trace = Append(@, o.objects[o.ref])]
    /\ UNCHANGED engineVars
    /\ UNCHANGED appVars

PairNext == \E i \in 1..2 : SimStep(i)

PairSpec == PairInit /\ [][PairNext]_vars

----------------------------------------------------------------------------
(* evaluate called twice on one state *)

\* partial derivatives handed to evaluate
PartialDerivatives ==
    {ZeroDerivative,
     [dx1 |-> Int2Num(1), dv1 |-> Int2Num(-1), dx2 |-> Int2Num(2), dv2 |-> Int2Num(1)]}

\* <<forceAmplitude, forceFrequency>>
Drives == {<<Int2Num(2), Norm(1, 4)>>, <<Zero, Norm(1, 4)>>, <<Int2Num(2), Norm(1, 2)>>}

\* <<m2, k2, b2>>
Body2Values == {<<Int2Num(1), Int2Num(1), Int2Num(1)>>, <<Int2Num(2), Int2Num(1), Zero>>}

EvaluateParams ==
    {[m1 |-> m1, k1 |-> k1, b1 |-> b1, m2 |-> b[1], k2 |-> b[2], b2 |-> b[3],
      forceAmplitude |-> f[1], forceFrequency |-> f[2]] :
        m1 \in {Int2Num(1), Int2Num(2)}, k1 \in StiffnessValues, b1 \in DampingValues,
        b \in Body2Values, f \in Drives}

\* the params of a second call: any with the m2, k2 and b2 of p, and p with
\* another k2
SecondParams(p) ==
    {q \in EvaluateParams : q.m2 = p.m2 /\ q.k2 = p.k2 /\ q.b2 = p.b2}
        \cup {[p EXCEPT !.k2 = Int2Num(3)]}

\* one evaluate call with its params: its arguments and its result
EvaluateCall(s, t, h, d, p) ==
    [state |-> s, t |-> t, dt |-> h, d |-> d, params |-> p,
     out |-> evaluate(s, t, h, d, p)]

\* a state and an offset to evaluate, and the params of the first call
EvaluateInit ==
    /\ start \in {s \in SimulationState : s.x1.n + s.v1.n + s.x2.n + s.v2.n # 1}
           \cup {[ZeroState EXCEPT !.x2 = Int2Num(1)]}
    /\ state = start
    /\ dt \in {Zero, Int2Num(1)}
    /\ params \in EvaluateParams
    /\ arg = state
    /\ calls = <<>>
    /\ outcome = "none"
    /\ nsteps = 0
    /\ objects = <<start>>
    /\ ref = 1
    /\ sims = <<>>
    /\ Mounted

\* evaluate(state, t1, dt, d, params) and evaluate(state, t2, dt, d, p2)
EvaluateTwice ==
    /\ calls = <<>>
    /\ \E d \in PartialDerivatives, t2 \in {Zero, Int2Num(1)}, p2 \in SecondParams(params) :
           calls' = <<EvaluateCall(state, Zero, dt, d, params),
                      EvaluateCall(state, t2, dt, d, p2)>>
    /\ UNCHANGED <<start, state, dt, params, arg, outcome, nsteps, objects, ref, sims>>
    /\ UNCHANGED appVars

EvaluateNext == EvaluateTwice

EvaluateSpec == EvaluateInit /\ [][EvaluateNext]_vars

----------------------------------------------------------------------------
(* App: the React component that drives the integrator                     *)
(*                                                                         *)
(* A handler of a user event (a click, a slider move) runs to its end;     *)
(* React 18, which the Canvas of @react-three/fiber imported by            *)
(* components/SimulationControl.tsx needs, then renders and runs the       *)
(* effect whose dependencies [mode, params] changed (the clean-up of the   *)
(* previous effect first) before the browser runs anything else.  The      *)
(* updates queued by an animation frame callback are rendered later, in a  *)
(* step of their own, and an updater function reads                        *)
(* simulationState.current when it is run.                                 *)
(*                                                                         *)
(* DEFAULT_PARAMS drives the system at 1 Hz and PHYSICS_DT is 1/100, so    *)
(* the stage times of the driver's steps are off the quarter turns on      *)
(* which the sine is rational.  The driver's steps therefore keep the time *)
(* exact and name each coordinate after the integrateRK4 call that         *)
(* returned it; calls records what every call was given.                   *)

DEFAULT_PARAMS ==
    [m1 |-> Int2Num(50), k1 |-> Int2Num(2000), b1 |-> Int2Num(10),
     m2 |-> Int2Num(5), k2 |-> Int2Num(200), b2 |-> Int2Num(15),
     forceAmplitude |-> Int2Num(50), forceFrequency |-> Int2Num(1)]

PHYSICS_DT == Norm(1, 100)

\* the length the chart history is cut to: 200 in the source, taken small
\* here so that a bounded run fills the history and cuts it
CHART_HISTORY_LENGTH == 1

\* number of animation frame callbacks that step the physics: enough for one
\* chart entry more than the history holds
MaxTicks == 5 * (CHART_HISTORY_LENGTH + 1) + 1

\* a mass slider whose range starts at 0
SliderChanges_FromZero == {<<"m1", Int2Num(0)>>, <<"m2", Int2Num(1)>>}

\* <<key, value>> of the sliders moved: the mass sliders, each to the least
\* value its range allows (m1: min="10", m2: min="1")
SliderChanges == {<<"m1", Int2Num(10)>>, <<"m2", Int2Num(1)>>}

\* Math.floor of a finite number
MathFloor(a) == a.n \div a.d

\* t.toFixed(2) of a finite t >= 0: <<whole part, tenths digit, hundredths
\* digit>> of t rounded to hundredths
ToFixed2(a) ==
    Only({<<h \div 100, (h % 100) \div 10, h % 10>> :
             h \in {(200 * a.n + a.d) \div (2 * a.d)}})

\* the value of the coordinate c returned by the k-th integrateRK4 call
Coordinate(c, k) == [of |-> c, call |-> k]

\* the state the k-th integrateRK4 call returns when given s and h
Result(s, h, k) ==
    [t  |-> Add(s.t, h),
     x1 |-> Coordinate("x1", k),
     v1 |-> Coordinate("v1", k),
     x2 |-> Coordinate("x2", k),
     v2 |-> Coordinate("v2", k)]

\* two physics steps in one animation frame
PhysicsStep_Batched(s, p, log) ==
    [state |-> Result(Result(s, PHYSICS_DT, Len(log) + 1), PHYSICS_DT, Len(log) + 2),
     calls |-> log \o <<[state |-> s, dt |-> PHYSICS_DT, params |-> p],
                        [state |-> Result(s, PHYSICS_DT, Len(log) + 1),
                         dt |-> PHYSICS_DT, params |-> p]>>]

\* simulationState.current = integrateRK4(simulationState.current,
\* PHYSICS_DT, params): the state stored and the calls made so far
PhysicsStep(s, p, log) ==
    [state |-> Result(s, PHYSICS_DT, Len(log) + 1),
     calls |-> Append(log, [state |-> s, dt |-> PHYSICS_DT, params |-> p])]

\* Math.floor(simulationState.current.t / PHYSICS_DT) % 5 === 0
Throttle(s) == MathFloor(Div(s.t, PHYSICS_DT)) % 5 = 0

\* the chart entry of the state s
Entry(s) == [t |-> ToFixed2(s.t), x1 |-> s.x1, x2 |-> s.x2]

\* the history left uncut
Trim_NoSlice(h) == h

\* newData cut to its first CHART_HISTORY_LENGTH entries
Trim_KeepOldest(h) ==
    IF Len(h) > CHART_HISTORY_LENGTH THEN SubSeq(h, 1, CHART_HISTORY_LENGTH) ELSE h

\* newData cut to its last CHART_HISTORY_LENGTH entries
Trim(h) ==
    IF Len(h) > CHART_HISTORY_LENGTH
    THEN SubSeq(h, Len(h) - CHART_HISTORY_LENGTH + 1, Len(h))
    ELSE h

\* the queued updates: setVisualState(v), setHistory(prev => ...), setHistory([])
SetVisual(v) == [op |-> "visual", value |-> v]
AppendHistory == [op |-> "append"]
ClearHistory == [op |-> "clear"]

\* the updates animate queues once it has stored the state s
AnimateUpdates(s) ==
    <<SetVisual(s)>> \o (IF Throttle(s) THEN <<AppendHistory>> ELSE <<>>)

\* handleReset leaving the chart as it is
ResetUpdates_KeepHistory == <<SetVisual(ZeroState)>>

\* the updates handleReset queues
ResetUpdates == <<SetVisual(ZeroState), ClearHistory>>

\* the visualState and history after the update u, which is run when
\* simulationState.current is s
ApplyUpdate(shown, u, s) ==
    CASE u.op = "visual" -> [shown EXCEPT !.visualState = u.value]
      [] u.op = "append" -> [shown EXCEPT !.history = Trim(Append(@, Entry(s))),
                                          !.samples = Append(@, Entry(s))]
      [] u.op = "clear"  -> [shown EXCEPT !.history = <<>>, !.samples = <<>>]

\* a render: the queued updates us applied in order
RECURSIVE Rendered(_, _, _)
Rendered(shown, us, s) ==
    IF us = <<>> THEN shown
    ELSE Rendered(ApplyUpdate(shown, Head(us), s), Tail(us), s)

\* cancelAnimationFrame(id)
Cancel(fs, id) == {f \in fs : f.id # id}

\* the refs and the browser's pending callbacks, as the effect sees them
Refs == [requestRef |-> requestRef, isRunning |-> isRunning, frames |-> frames,
         lastId |-> lastId]

\* a clean-up that leaves the requested callback pending
Cleanup_NoCancel(r) == [r EXCEPT !.isRunning = FALSE]

\* the function the effect returns
Cleanup(r) ==
    [r EXCEPT !.frames = IF r.requestRef # 0 THEN Cancel(@, r.requestRef) ELSE @,
              !.isRunning = FALSE]

\* the effect starting the loop whatever the mode is
Effect_IgnoresMode(r, m, p) ==
    [r EXCEPT !.isRunning = TRUE,
              !.requestRef = r.lastId + 1,
              !.lastId = r.lastId + 1,
              !.frames = @ \cup {[id |-> r.lastId + 1, params |-> p]}]

\* the body of the effect, run by a render with mode m and params p: the
\* callback it requests is the animate of that render, which reads p
Effect(r, m, p) ==
    IF m = "SIMULATE"
    THEN [r EXCEPT !.isRunning = TRUE,
                   !.requestRef = r.lastId + 1,
                   !.lastId = r.lastId + 1,
                   !.frames = @ \cup {[id |-> r.lastId + 1, params |-> p]}]
    ELSE [r EXCEPT !.isRunning = FALSE,
                   !.frames = IF r.requestRef # 0 THEN Cancel(@, r.requestRef) ELSE @]

\* a render whose effect depends on [mode] alone
Commit_ModeOnly(m, p, us) ==
    /\ \E shown \in {Rendered([visualState |-> visualState, history |-> history,
                               samples |-> samples],
                              updates \o us, state')} :
           /\ visualState' = shown.visualState
           /\ history' = shown.history
           /\ samples' = shown.samples
    /\ updates' = <<>>
    /\ \E r \in {IF m # mode THEN Effect(Cleanup(Refs), m, p) ELSE Refs} :
           /\ requestRef' = r.requestRef
           /\ isRunning' = r.isRunning
           /\ frames' = r.frames
           /\ lastId' = r.lastId

\* a render after which the effect runs again if mode or params changed
Commit(m, p, us) ==
    /\ \E shown \in {Rendered([visualState |-> visualState, history |-> history,
                               samples |-> samples],
                              updates \o us, state')} :
           /\ visualState' = shown.visualState
           /\ history' = shown.history
           /\ samples' = shown.samples
    /\ updates' = <<>>
    /\ \E r \in {IF m # mode \/ p # params THEN Effect(Cleanup(Refs), m, p) ELSE Refs} :
           /\ requestRef' = r.requestRef
           /\ isRunning' = r.isRunning
           /\ frames' = r.frames
           /\ lastId' = r.lastId

AppInit ==
    /\ Mounted
    /\ params = DEFAULT_PARAMS
    /\ state = ZeroState
    /\ start = ZeroState
    /\ dt = PHYSICS_DT
    /\ arg = ZeroState
    /\ calls = <<>>
    /\ outcome = "none"
    /\ nsteps = 0
    /\ objects = <<>>
    /\ ref = 0
    /\ sims = <<>>

\* onClick={() => setMode(m)}; setMode(mode) renders nothing.  App renders
\* <LearnMode /> in LEARN mode only: entering LEARN mounts a new LearnMode,
\* leaving it unmounts the one there, whose timeouts stay pending
SetMode(m) ==
    /\ m # mode
    /\ nevents < MaxEvents
    /\ nevents' = nevents + 1
    /\ last' = "setMode"
    /\ mode' = m
    /\ UNCHANGED <<params, state>>
    /\ Commit(m, params, <<>>)
    /\ IF m = "LEARN"
       THEN /\ forces' = INITIAL_FORCES
            /\ feedback' = "null"
            /\ forceStep' = 1
            /\ UNCHANGED <<timeouts, stale>>
       ELSE /\ stale' = stale + timeouts
            /\ timeouts' = 0
            /\ UNCHANGED <<forces, feedback, forceStep>>
    /\ UNCHANGED <<start, dt, arg, calls, outcome, nsteps, objects, ref, sims, view>>

\* a parameter change that starts the simulation over
HandleChange_Restart(key, value) ==
    /\ nevents < MaxEvents
    /\ params[key] # value
    /\ nevents' = nevents + 1
    /\ last' = "handleChange"
    /\ params' = [params EXCEPT ![key] = value]
    /\ state' = ZeroState
    /\ UNCHANGED mode
    /\ Commit(mode, params', <<>>)
    /\ UNCHANGED <<start, dt, arg, calls, outcome, nsteps, objects, ref, sims, view>>
    /\ UNCHANGED learnVars

\* handleChange(key, value) of SimulationControl: setParams({...params, [key]: value})
HandleChange(key, value) ==
    /\ nevents < MaxEvents
    /\ params[key] # value
    /\ nevents' = nevents + 1
    /\ last' = "handleChange"
    /\ params' = [params EXCEPT ![key] = value]
    /\ UNCHANGED <<mode, state>>
    /\ Commit(mode, params', <<>>)
    /\ UNCHANGED <<start, dt, arg, calls, outcome, nsteps, objects, ref, sims, view>>
    /\ UNCHANGED learnVars

HandleReset ==
    /\ nevents < MaxEvents
    /\ nevents' = nevents + 1
    /\ last' = "handleReset"
    /\ params' = DEFAULT_PARAMS
    /\ state' = ZeroState
    /\ UNCHANGED mode
    /\ Commit(mode, DEFAULT_PARAMS, ResetUpdates)
    /\ UNCHANGED <<start, dt, arg, calls, outcome, nsteps, objects, ref, sims, view>>
    /\ UNCHANGED learnVars

\* the browser runs the pending callback f, the animate of the render that
\* requested it
Animate(f) ==
    /\ nsteps < MaxTicks
    /\ Len(updates) <= MaxPending
    /\ last' = "animate"
    /\ IF ~isRunning
       THEN /\ frames' = frames \ {f}
            /\ UNCHANGED <<state, arg, calls, nsteps, updates, requestRef, lastId>>
       ELSE \E r \in {PhysicsStep(state, f.params, calls)} :
            /\ state' = r.state
            /\ calls' = r.calls
            /\ nsteps' = Len(r.calls)
            /\ arg' = state
            /\ updates' = updates \o AnimateUpdates(r.state)
            /\ requestRef' = lastId + 1
            /\ lastId' = lastId + 1
            /\ frames' = (frames \ {f}) \cup {[id |-> lastId + 1, params |-> f.params]}
    /\ UNCHANGED <<mode, params, visualState, history, isRunning, nevents>>
    /\ UNCHANGED <<start, dt, outcome, objects, ref, sims, samples, view>>
    /\ UNCHANGED learnVars

\* MascotVisualizer: onClick={() => setView(v)}; the view is state of the
\* visualizer alone, which is rendered in both modes, and setView(view)
\* renders nothing
SetView(v) ==
    /\ v # view
    /\ nevents < MaxEvents
    /\ nevents' = nevents + 1
    /\ last' = "setView"
    /\ view' = v
    /\ UNCHANGED <<mode, params, state, visualState, history, updates, requestRef,
                   isRunning, frames, lastId, samples>>
    /\ UNCHANGED <<start, dt, arg, calls, outcome, nsteps, objects, ref, sims>>
    /\ UNCHANGED learnVars

\* React renders the updates the animation frame callbacks queued
Render ==
    /\ updates # <<>>
    /\ last' = "render"
    /\ UNCHANGED <<mode, params, state, nevents>>
    /\ Commit(mode, params, <<>>)
    /\ UNCHANGED <<start, dt, arg, calls, outcome, nsteps, objects, ref, sims, view>>
    /\ UNCHANGED learnVars

AppNext ==
    \/ \E m \in {"LEARN", "SIMULATE"} : SetMode(m)
    \/ \E c \in SliderChanges : HandleChange(c[1], c[2])
    \/ HandleReset
    \/ \E f \in frames : Animate(f)
    \/ Render
    \/ \E v \in {"3D", "2D"} : SetView(v)

AppSpec == AppInit /\ [][AppNext]_vars

----------------------------------------------------------------------------
(* LearnMode: the force-identification exercise                            *)
(*                                                                         *)
(* The buttons of the exercise are those of tab 1; the other tabs do not   *)
(* touch forces, feedback or forceStep and are left out.  A click and the  *)
(* render after it are one step, and so are a timeout and its render.      *)

\* the mass always taken to be m1
Target_AlwaysM1(step) == "m1"

\* forceStep === 1 ? 'm1' : 'm2'
Target(step) == IF step = 1 THEN "m1" ELSE "m2"

\* prev.map(f => f.id === id ? { ...f, selected: !f.selected } : f)
Toggled(fs, id) ==
    [i \in DOMAIN fs |->
        IF fs[i].id = id THEN [fs[i] EXCEPT !.selected = ~@] ELSE fs[i]]

incorrectSelection(fs, step) ==
    \E i \in DOMAIN fs :
        fs[i].selected # fs[i].isCorrect /\ fs[i].target = Target(step)

missedCorrect(fs, step) ==
    \E i \in DOMAIN fs :
        fs[i].isCorrect /\ ~fs[i].selected /\ fs[i].target = Target(step)

\* onClick={() => toggleForce(force.id)}, offered for the forces of the
\* current mass
ToggleForce(id) ==
    /\ mode = "LEARN"
    /\ \E i \in DOMAIN forces :
           forces[i].id = id /\ forces[i].target = Target(forceStep)
    /\ last' = "toggleForce"
    /\ forces' = Toggled(forces, id)
    /\ feedback' = "null"
    /\ UNCHANGED <<forceStep, timeouts, stale>>
    /\ UNCHANGED <<mode, visualState, history, updates, requestRef, isRunning,
                   frames, lastId, nevents, samples, view>>
    /\ UNCHANGED <<start, state, dt, params, arg, calls, outcome, nsteps, objects,
                   ref, sims>>

\* onClick={validateForces}
ValidateForces ==
    /\ mode = "LEARN"
    /\ last' = "validateForces"
    /\ IF incorrectSelection(forces, forceStep) \/ missedCorrect(forces, forceStep)
       THEN /\ feedback' = "Incorrect"
            /\ UNCHANGED timeouts
       ELSE /\ feedback' = "Correct"
            /\ IF forceStep = 1
               THEN /\ timeouts + stale < MaxTimeouts
                    /\ timeouts' = timeouts + 1
               ELSE UNCHANGED timeouts
    /\ UNCHANGED <<forces, forceStep, stale>>
    /\ UNCHANGED <<mode, visualState, history, updates, requestRef, isRunning,
                   frames, lastId, nevents, samples, view>>
    /\ UNCHANGED <<start, state, dt, params, arg, calls, outcome, nsteps, objects,
                   ref, sims>>

\* the callback of setTimeout(..., 1500), set by the LearnMode that is mounted
Timeout ==
    /\ timeouts > 0
    /\ last' = "timeout"
    /\ timeouts' = timeouts - 1
    /\ forceStep' = 2
    /\ feedback' = "null"
    /\ UNCHANGED <<forces, stale>>
    /\ UNCHANGED <<mode, visualState, history, updates, requestRef, isRunning,
                   frames, lastId, nevents, samples, view>>
    /\ UNCHANGED <<start, state, dt, params, arg, calls, outcome, nsteps, objects,
                   ref, sims>>

\* the same callback, set by a LearnMode that has been unmounted since: it
\* sets the state of a component that is gone
StaleTimeout ==
    /\ stale > 0
    /\ last' = "staleTimeout"
    /\ stale' = stale - 1
    /\ UNCHANGED <<forces, feedback, forceStep, timeouts>>
    /\ UNCHANGED <<mode, visualState, history, updates, requestRef, isRunning,
                   frames, lastId, nevents, samples, view>>
    /\ UNCHANGED <<start, state, dt, params, arg, calls, outcome, nsteps, objects,
                   ref, sims>>

LearnInit == AppInit

LearnNext ==
    \/ \E m \in {"LEARN", "SIMULATE"} : SetMode(m)
    \/ \E i \in DOMAIN INITIAL_FORCES : ToggleForce(INITIAL_FORCES[i].id)
    \/ ValidateForces
    \/ Timeout
    \/ StaleTimeout

LearnSpec == LearnInit /\ [][LearnNext]_vars

----------------------------------------------------------------------------
(* Vocabulary of the properties *)

IsPositive(a) == a.n > 0
IsNonPositive(a) == ~IsNaN(a) /\ a.n <= 0

Less(a, b) == IsFinite(a) /\ IsFinite(b) /\ a.n * b.d < b.n * a.d

FiniteState(s) ==
    IsFinite(s.t) /\ IsFinite(s.x1) /\ IsFinite(s.v1) /\ IsFinite(s.x2) /\ IsFinite(s.v2)

FiniteDerivative(d) ==
    IsFinite(d.dx1) /\ IsFinite(d.dv1) /\ IsFinite(d.dx2) /\ IsFinite(d.dv2)

AtEquilibrium(s) == s.x1 = Zero /\ s.v1 = Zero /\ s.x2 = Zero /\ s.v2 = Zero

ValidMasses == IsPositive(params.m1) /\ IsPositive(params.m2)
ValidTimestep == IsPositive(dt)

Called == nsteps > 0

----------------------------------------------------------------------------
(* Error handling *)

\* C1: a step with dt > 0 and m1 <= 0 or m2 <= 0 fails with InvalidParameter
\* and never returns a state containing NaN or Infinity.
C1_InvalidParameter ==
    (Called /\ ValidTimestep /\ (IsNonPositive(params.m1) \/ IsNonPositive(params.m2)))
        => (outcome = "InvalidParameter" /\ ~(outcome = "returned" /\ ~FiniteState(state)))

\* C2: a step with valid masses and dt <= 0 fails with InvalidTimestep and
\* returns no next state.
C2_InvalidTimestep ==
    (Called /\ ValidMasses /\ IsNonPositive(dt))
        => (outcome = "InvalidTimestep" /\ outcome # "returned")

\* C3: a next state with a non-finite component is never handed back to the
\* caller: the step reports NonFiniteResult instead of returning it.
C3_NonFiniteResult ==
    Called => (IF FiniteState(state) THEN outcome = "returned"
               ELSE outcome = "NonFiniteResult")

----------------------------------------------------------------------------
(* Equilibrium *)

\* C4: from the zero state with forceAmplitude = 0, for any dt > 0 and any
\* parameters with m1 > 0 and m2 > 0, x1, v1, x2 and v2 are 0 after every
\* step of the sequence.
C4_FixedPoint ==
    (AtEquilibrium(start) /\ params.forceAmplitude = Zero /\ ValidTimestep /\ ValidMasses)
        => (AtEquilibrium(state) /\ (Called => outcome = "returned" /\ AtEquilibrium(arg)))

\* a second successive step from rest has returned, with springs and dampers present
C4_Witness ==
    /\ nsteps = 2 /\ outcome = "returned"
    /\ AtEquilibrium(start) /\ AtEquilibrium(arg) /\ AtEquilibrium(state)
    /\ params.forceAmplitude = Zero /\ ValidTimestep /\ ValidMasses
    /\ params.k1 # Zero /\ params.b1 # Zero /\ params.k2 # Zero /\ params.b2 # Zero
    /\ state.t # start.t

----------------------------------------------------------------------------
(* evaluate: the equations of motion *)

\* the x and v components of a state
Coordinates(s) == [x1 |-> s.x1, v1 |-> s.v1, x2 |-> s.x2, v2 |-> s.v2]

\* state.<c> + partial_derivative.<dc> * dt_offset, for the recorded call c
TrialOf(c) ==
    [x1 |-> Add(c.state.x1, Mul(c.d.dx1, c.dt)),
     v1 |-> Add(c.state.v1, Mul(c.d.dv1, c.dt)),
     x2 |-> Add(c.state.x2, Mul(c.d.dx2, c.dt)),
     v2 |-> Add(c.state.v2, Mul(c.d.dv2, c.dt))]

\* Fk2 = k2 * (x2' - x1') and Fb2 = b2 * (v2' - v1') of the recorded call c
Fk2(c) == Mul(params.k2, Sub(TrialOf(c).x2, TrialOf(c).x1))
Fb2(c) == Mul(params.b2, Sub(TrialOf(c).v2, TrialOf(c).v1))

\* force(t, amplitude, frequency) at the stage time of the recorded call c
DriveOf(c) == Mul(params.forceAmplitude, MathSin2Pi(Mul(params.forceFrequency, c.t)))

\* -k1*x1' - b1*v1' + force(t): what acts on body 1 apart from the coupling
OwnForce1(c) ==
    Add(Add(Neg(Mul(params.k1, TrialOf(c).x1)), Neg(Mul(params.b1, TrialOf(c).v1))),
        DriveOf(c))

FiniteCall(c) == FiniteState(c.state) /\ FiniteDerivative(c.d) /\ FiniteDerivative(c.out)

\* C5: in every evaluate call the net force on body 2 is F2 = -Fk2 - Fb2, the
\* exact negation of the coupling contribution Fk2 + Fb2 to the net force on
\* body 1, and the returned dv2 is F2 / m2.
C5_ThirdLaw ==
    \A i \in 1..Len(calls) :
        LET c == calls[i]
            F2 == Neg(Add(Fk2(c), Fb2(c)))
        IN  /\ c.out.dv2 = Div(F2, params.m2)
            /\ (ValidMasses /\ FiniteCall(c))
                   => Mul(params.m1, c.out.dv1) = Sub(OwnForce1(c), F2)

\* an evaluate call with a nonzero coupling spring and damper force
C5_Witness ==
    \E i \in 1..Len(calls) :
        /\ ValidMasses /\ FiniteCall(calls[i]) /\ params.m2 # Int2Num(1)
        /\ Fk2(calls[i]) # Zero /\ Fb2(calls[i]) # Zero
        /\ Fk2(calls[i]) # Fb2(calls[i])
        /\ OwnForce1(calls[i]) # Zero
        /\ calls[i].out.dv2 # Zero

\* C6: in every evaluate call the net force on body 1 is
\* F1 = -k1*x1' - b1*v1' + Fk2 + Fb2 + force(t, amplitude, frequency), from the
\* trial state and the stage time, and the returned dv1 is F1 / m1.
C6_NetForce1 ==
    \A i \in 1..Len(calls) :
        LET c == calls[i]
            tr == TrialOf(c)
            F1 == Add(Add(Add(Add(Neg(Mul(params.k1, tr.x1)), Neg(Mul(params.b1, tr.v1))),
                              Fk2(c)),
                          Fb2(c)),
                      DriveOf(c))
        IN  c.out.dv1 = Div(F1, params.m1)

\* an evaluate call at an intermediate time in which all five terms of F1 act
C6_Witness ==
    \E i \in 1..Len(calls) :
        LET c == calls[i]
        IN  /\ ValidMasses /\ FiniteCall(c)
            /\ c.t # c.state.t
            /\ TrialOf(c) # Coordinates(c.state)
            /\ Mul(params.k1, TrialOf(c).x1) # Zero
            /\ Mul(params.b1, TrialOf(c).v1) # Zero
            /\ Fk2(c) # Zero /\ Fb2(c) # Zero /\ DriveOf(c) # Zero
            /\ c.out.dv1 # Zero

C10_ZeroOffsetCase ==
    \E i \in 1..Len(calls) :
        LET c == calls[i]
        IN  /\ ValidMasses /\ FiniteCall(c)
            /\ c.dt = Zero
            /\ c.d.dv1 # Zero /\ c.d.dx1 # Zero /\ c.d.dx2 # Zero

----------------------------------------------------------------------------
(* integrateRK4: the Runge-Kutta step *)

\* C7: one step makes exactly four evaluate calls, all on the input state:
\* at t with offset 0 and the zero derivative; at t+dt/2 with offset dt/2 and
\* stage 1's result; at t+dt/2 with offset dt/2 and stage 2's result; at t+dt
\* with offset dt and stage 3's result.
C7_FourStages ==
    Called =>
        /\ Len(calls) = 4
        /\ \A i \in 1..4 : calls[i].state = arg
        /\ calls[1].t = arg.t
        /\ calls[1].dt = Zero
        /\ calls[1].d = ZeroDerivative
        /\ calls[2].t = Add(arg.t, Div(dt, Two))
        /\ calls[2].dt = Div(dt, Two)
        /\ calls[2].d = calls[1].out
        /\ calls[3].t = Add(arg.t, Div(dt, Two))
        /\ calls[3].dt = Div(dt, Two)
        /\ calls[3].d = calls[2].out
        /\ calls[4].t = Add(arg.t, dt)
        /\ calls[4].dt = dt
        /\ calls[4].d = calls[3].out

\* a second step whose four stages see four different derivatives
C7_Witness ==
    /\ nsteps = 2 /\ ValidMasses /\ ValidTimestep /\ FiniteState(state)
    /\ arg # start
    /\ calls[1].out # ZeroDerivative
    /\ calls[2].out # calls[1].out
    /\ calls[3].out # calls[2].out /\ calls[3].out # calls[1].out
    /\ calls[4].out # calls[3].out
    /\ calls[4].t # calls[3].t /\ calls[3].t # calls[1].t

\* dt * (k1 + 2*k2 + 2*k3 + k4) / 6 for the stage values k1..k4 of a component
Increment(k1, k2, k3, k4) ==
    Mul(dt, Div(Add(Add(Add(k1, Mul(Two, k2)), Mul(Two, k3)), k4), Int2Num(6)))

\* C8: each of x1, v1, x2, v2 returned by step is the input value plus dt
\* times (k1 + 2*k2 + 2*k3 + k4)/6 of that component's own stage derivatives.
C8_WeightedAverage ==
    Called =>
        LET k(i) == calls[i].out
        IN  /\ state.x1 = Add(arg.x1, Increment(k(1).dx1, k(2).dx1, k(3).dx1, k(4).dx1))
            /\ state.v1 = Add(arg.v1, Increment(k(1).dv1, k(2).dv1, k(3).dv1, k(4).dv1))
            /\ state.x2 = Add(arg.x2, Increment(k(1).dx2, k(2).dx2, k(3).dx2, k(4).dx2))
            /\ state.v2 = Add(arg.v2, Increment(k(1).dv2, k(2).dv2, k(3).dv2, k(4).dv2))

\* a step in which the four components advance by four different increments,
\* each from stage derivatives that differ from stage to stage
C8_Witness ==
    /\ Called /\ ValidMasses /\ ValidTimestep
    /\ \A i \in 1..4 : FiniteCall(calls[i])
    /\ LET dx1 == Sub(state.x1, arg.x1)
           dv1 == Sub(state.v1, arg.v1)
           dx2 == Sub(state.x2, arg.x2)
           dv2 == Sub(state.v2, arg.v2)
       IN  Cardinality({Zero, dx1, dv1, dx2, dv2}) = 5
    /\ calls[2].out.dv1 # calls[3].out.dv1
    /\ calls[1].out.dv1 # calls[4].out.dv1
    /\ calls[2].out.dx2 # calls[3].out.dx2

\* C9: every step returns a state whose time is t + dt, whatever the
\* parameters and x1, v1, x2, v2 are; after n steps with the same dt the time
\* is t0 + n*dt, strictly increasing along the sequence when dt > 0.
C9_TimeAdvance ==
    /\ state.t = Add(start.t, Mul(Int2Num(nsteps), dt))
    /\ Called => /\ outcome = "returned"
                 /\ state.t = Add(arg.t, dt)
                 /\ ValidTimestep => Less(arg.t, state.t) /\ ~Less(arg.t, start.t)

\* two successive steps with dt > 0 have advanced the time twice
C9_Witness ==
    /\ nsteps = 2 /\ ValidTimestep /\ ValidMasses
    /\ Less(start.t, arg.t) /\ Less(arg.t, state.t)
    /\ Coordinates(state) # Coordinates(arg)
    /\ Coordinates(arg) # Coordinates(start)

----------------------------------------------------------------------------
(* What body 2 does not see *)

\* the two calls agree on the state, the partial derivative and the offset
SameTrial(c1, c2) == c1.state = c2.state /\ c1.d = c2.d /\ c1.dt = c2.dt

\* the two calls agree on m2, k2 and b2
SameBody2(c1, c2) ==
    /\ c1.params.m2 = c2.params.m2
    /\ c1.params.k2 = c2.params.k2
    /\ c1.params.b2 = c2.params.b2

\* C11: two evaluate calls that agree on the state, the partial derivative,
\* the offset, m2, k2 and b2 return the same dx2 and dv2, however they differ
\* in forceAmplitude, forceFrequency, stage time, k1, b1 or m1.
C11_Body2Independence ==
    (Len(calls) = 2 /\ SameTrial(calls[1], calls[2]) /\ SameBody2(calls[1], calls[2]))
        => /\ calls[1].out.dx2 = calls[2].out.dx2
           /\ calls[1].out.dv2 = calls[2].out.dv2

\* two calls that differ in the stage time, m1, k1, b1 and the drive and
\* return different dv1, with body 2 accelerating under spring and damper
C11_Witness ==
    /\ Len(calls) = 2 /\ SameTrial(calls[1], calls[2]) /\ SameBody2(calls[1], calls[2])
    /\ calls[1].t # calls[2].t
    /\ calls[1].params.m1 # calls[2].params.m1
    /\ calls[1].params.k1 # calls[2].params.k1
    /\ calls[1].params.b1 # calls[2].params.b1
    /\ calls[1].params.forceAmplitude # calls[2].params.forceAmplitude
    /\ calls[1].params.forceFrequency # calls[2].params.forceFrequency
    /\ calls[1].out.dv1 # calls[2].out.dv1
    /\ calls[1].out.dv2 # Zero /\ calls[1].out.dx2 # Zero
    /\ calls[1].dt # Zero /\ calls[1].d # ZeroDerivative
    /\ calls[1].params.k2 # Zero /\ calls[1].params.b2 # Zero

----------------------------------------------------------------------------
(* The drive *)

\* the times t, t + dt/2, t + dt/2, t + dt of the four stages of a step from s
StageTimes(s) ==
    <<s.t, Add(s.t, Div(dt, Two)), Add(s.t, Div(dt, Two)), Add(s.t, dt)>>

\* amplitude * sin(2*pi*frequency*t)
DriveAt(t) == Mul(params.forceAmplitude, MathSin2Pi(Mul(params.forceFrequency, t)))

\* what is left of m1 * dv1 of the recorded call c once the springs and the
\* dampers are taken out, and of m2 * dv2 once the coupling is taken out
Residual1(c) ==
    Sub(Mul(params.m1, c.out.dv1),
        Add(Add(Add(Neg(Mul(params.k1, TrialOf(c).x1)), Neg(Mul(params.b1, TrialOf(c).v1))),
                Fk2(c)),
            Fb2(c)))
Residual2(c) == Add(Mul(params.m2, c.out.dv2), Add(Fk2(c), Fb2(c)))

\* C12: the drive acting in stage i of a step is amplitude *
\* sin(2*pi*frequency*t) at the stage time (t, t+dt/2, t+dt/2, t+dt), not at
\* the state's own t; it is 0 at every stage when forceAmplitude = 0; it
\* enters the net force on body 1 only, and the call leaves the state and the
\* parameters it was given as they were.
C12_DriveForce ==
    Called =>
        \A i \in 1..Len(calls) :
            /\ calls[i].state = arg
            /\ (ValidMasses /\ FiniteCall(calls[i])) =>
                   /\ Residual1(calls[i]) = DriveAt(StageTimes(arg)[i])
                   /\ params.forceAmplitude = Zero => Residual1(calls[i]) = Zero
                   /\ Residual2(calls[i]) = Zero
                   /\ calls[i].out.dx1 = TrialOf(calls[i]).v1
                   /\ calls[i].out.dx2 = TrialOf(calls[i]).v2

\* a second step whose midpoint stages are driven by -amplitude while the
\* drive at the state's own time and at the end of the step is 0
C12_Witness ==
    /\ nsteps = 2 /\ ValidMasses /\ ValidTimestep
    /\ \A i \in 1..4 : FiniteCall(calls[i])
    /\ params.forceAmplitude # Zero
    /\ DriveAt(arg.t) = Zero
    /\ Residual1(calls[1]) = Zero
    /\ Residual1(calls[2]) = Neg(params.forceAmplitude)
    /\ Residual1(calls[3]) = Neg(params.forceAmplitude)
    /\ Residual1(calls[4]) = Zero
    /\ calls[2].out.dv2 # Zero
    /\ params.k1 # Zero /\ params.b1 # Zero /\ params.k2 # Zero /\ params.b2 # Zero

\* a step without drive at a stage time where the sine is not 0
C12_ZeroAmplitudeCase ==
    /\ Called /\ ValidMasses /\ ValidTimestep
    /\ params.forceAmplitude = Zero
    /\ MathSin2Pi(Mul(params.forceFrequency, calls[2].t)) # Zero
    /\ calls[2].out.dv1 # Zero
    /\ Residual1(calls[2]) = Zero

----------------------------------------------------------------------------
(* Frame *)

\* C14: a step leaves the state object and the params (and dt) it was given
\* holding the values they held before the call, and returns a new object,
\* distinct from the input object, that holds the result.
C14_InputsNotMutated ==
    [][nsteps' # nsteps =>
          /\ objects'[ref] = objects[ref]
          /\ \A r \in 1..Len(objects) : objects'[r] = objects[r]
          /\ params' = params
          /\ dt' = dt
          /\ ref' # ref
          /\ ref' \notin 1..Len(objects)
          /\ state' = objects'[ref']
          /\ arg' = objects'[ref]]_vars

\* after two steps three objects exist: the first input still holds the
\* start value, the second input the first result, and the result differs
C14_Witness ==
    /\ nsteps = 2 /\ ValidMasses /\ ValidTimestep /\ FiniteState(state)
    /\ Len(objects) = 3 /\ ref = 3
    /\ objects[1] = start /\ objects[2] = arg /\ objects[3] = state
    /\ Coordinates(objects[1]) # Coordinates(objects[2])
    /\ Coordinates(objects[2]) # Coordinates(objects[3])

\* a step with dt = 0 returns a new object holding the value of its input
C14_EqualValueCase ==
    /\ Called /\ ValidMasses /\ dt = Zero
    /\ ref = Len(objects) /\ ref > 1
    /\ objects[ref] = objects[ref - 1]

----------------------------------------------------------------------------
(* Unusual parameters *)

IsNegative(a) == IsFinite(a) /\ a.n < 0

\* C15: with positive masses and dt > 0 a step returns normally whatever k1,
\* b1, k2, b2, forceAmplitude and forceFrequency are (zero and negative
\* included), and every derivative it computes is the one the equations of
\* motion give for exactly the supplied values: nothing is clamped or replaced.
C15_NoClamping ==
    (Called /\ ValidMasses /\ ValidTimestep) =>
        /\ outcome = "returned"
        /\ FiniteState(state)
        /\ \A i \in 1..Len(calls) :
               LET c == calls[i]
                   x1 == Add(arg.x1, Mul(c.d.dx1, c.dt))
                   v1 == Add(arg.v1, Mul(c.d.dv1, c.dt))
                   x2 == Add(arg.x2, Mul(c.d.dx2, c.dt))
                   v2 == Add(arg.v2, Mul(c.d.dv2, c.dt))
                   coupling == Add(Mul(params.k2, Sub(x2, x1)), Mul(params.b2, Sub(v2, v1)))
                   drive == Mul(params.forceAmplitude,
                                MathSin2Pi(Mul(params.forceFrequency, StageTimes(arg)[i])))
               IN  /\ Mul(params.m1, c.out.dv1) =
                          Add(Add(Sub(Neg(Mul(params.k1, x1)), Mul(params.b1, v1)), coupling),
                              drive)
                   /\ Mul(params.m2, c.out.dv2) = Neg(coupling)

\* a step with k1, b1, k2, b2, forceAmplitude and forceFrequency all negative
\* in which every one of them contributes to the result
C15_Witness ==
    /\ nsteps = 2 /\ ValidMasses /\ ValidTimestep /\ outcome = "returned"
    /\ IsNegative(params.k1) /\ IsNegative(params.b1)
    /\ IsNegative(params.k2) /\ IsNegative(params.b2)
    /\ IsNegative(params.forceAmplitude) /\ IsNegative(params.forceFrequency)
    /\ \E i \in 1..4 :
           /\ Mul(params.k1, TrialOf(calls[i]).x1) # Zero
           /\ Mul(params.b1, TrialOf(calls[i]).v1) # Zero
           /\ Fk2(calls[i]) # Zero /\ Fb2(calls[i]) # Zero
           /\ DriveOf(calls[i]) # Zero
           /\ calls[i].out.dv1 # Zero /\ calls[i].out.dv2 # Zero

\* a step with positive masses in which all of k1, b1, k2, b2 and the
\* amplitude are zero
C15_ZeroCase ==
    /\ Called /\ ValidMasses /\ ValidTimestep /\ outcome = "returned"
    /\ params.k1 = Zero /\ params.b1 = Zero /\ params.k2 = Zero /\ params.b2 = Zero
    /\ params.forceAmplitude = Zero
    /\ ~AtEquilibrium(arg)

----------------------------------------------------------------------------
(* Interleaving *)

\* the state a caller alone holds after n steps from s
RECURSIVE Alone(_, _, _, _)
Alone(s, h, p, n) ==
    IF n = 0 THEN s ELSE integrateRK4(Alone(s, h, p, n - 1), h, p).value

\* C16: however the step calls of two independent simulations interleave,
\* each simulation holds the same sequence of states as when it runs alone.
C16_Interleaving ==
    \A i \in 1..2 :
        /\ objects[sims[i].ref] = sims[i].trace[Len(sims[i].trace)]
        /\ \A k \in 1..Len(sims[i].trace) :
               sims[i].trace[k] =
                   Alone(sims[i].trace[1], sims[i].dt, sims[i].params, k - 1)

\* two simulations handed the same initial object, with different params,
\* have each made two steps, the second simulation stepping in between
C16_Witness ==
    /\ Len(sims[1].trace) = 3 /\ Len(sims[2].trace) = 3
    /\ sims[1].params # sims[2].params
    /\ sims[1].trace[1] = objects[1] /\ sims[2].trace[1] = objects[1]
    /\ sims[1].trace[2] = objects[2] /\ sims[2].trace[2] = objects[3]
    /\ sims[1].trace[3] = objects[4] /\ sims[2].trace[3] = objects[5]
    /\ sims[1].trace[3] # sims[2].trace[3]
    /\ Coordinates(sims[1].trace[3]) # Coordinates(sims[1].trace[2])
    /\ Coordinates(sims[2].trace[3]) # Coordinates(sims[2].trace[2])

----------------------------------------------------------------------------
(* App: the animation loop *)

\* C17: an animation callback that runs while the simulation is running makes
\* exactly one integrateRK4 call, on the state stored before it with
\* PHYSICS_DT, and stores its result, PHYSICS_DT later in time; no call is
\* made otherwise, and the stored time decreases only by a reset.
C17_OneStepPerFrame ==
    [][/\ (last' = "animate" /\ isRunning) =>
              /\ Len(calls') = Len(calls) + 1
              /\ SubSeq(calls', 1, Len(calls)) = calls
              /\ calls'[Len(calls')].state = state
              /\ calls'[Len(calls')].dt = PHYSICS_DT
              /\ arg' = state
              /\ state'.t = Add(state.t, PHYSICS_DT)
              /\ state'.x1 = Coordinate("x1", Len(calls'))
              /\ state'.v1 = Coordinate("v1", Len(calls'))
              /\ state'.x2 = Coordinate("x2", Len(calls'))
              /\ state'.v2 = Coordinate("v2", Len(calls'))
       /\ ~(last' = "animate" /\ isRunning) => calls' = calls
       /\ last' \notin {"animate", "handleReset"} => state' = state
       /\ last' # "handleReset" => ~Less(state'.t, state.t)]_vars

\* six callbacks in a row have stepped the stored state from 0 to 0.06, each
\* from the result of the one before
C17_Witness ==
    /\ Len(calls) = 6 /\ last = "animate"
    /\ state.t = Norm(6, 100)
    /\ calls[1].state = ZeroState
    /\ \A k \in 2..6 : calls[k].state.x1 = Coordinate("x1", k - 1)
    /\ arg.t = Norm(5, 100)
    /\ state.v2 = Coordinate("v2", 6)

\* C18: the application starts in LEARN mode with the simulation not running;
\* while the mode is LEARN no integrateRK4 call happens and the stored
\* simulation state stays unchanged until the mode is SIMULATE again.
C18_LearnFreezesState ==
    /\ (mode = "LEARN" /\ ~isRunning)
    /\ [][mode = "LEARN" => (calls' = calls /\ state' = state)]_vars

\* C18 as amended: in LEARN mode no integrateRK4 call happens, nothing is
\* running or pending, and the stored state changes only when handleReset
\* replaces it by the zero state.
C18_LearnStopsStepping ==
    /\ (mode = "LEARN" /\ ~isRunning /\ frames = {})
    /\ [][/\ mode = "LEARN" =>
                 /\ calls' = calls
                 /\ state' = state \/ (last' = "handleReset" /\ state' = ZeroState)
          /\ mode' = "LEARN" => (~isRunning' /\ frames' = {})]_vars

\* back in LEARN mode after three steps, with a callback that was pending
\* when the mode changed now cancelled, and a slider moved since
C18_Witness ==
    /\ mode = "LEARN" /\ last = "handleChange"
    /\ Len(calls) = 3 /\ state.t = Norm(3, 100)
    /\ requestRef # 0 /\ frames = {} /\ ~isRunning

\* C19: right after handleReset, in any mode and running or not, the stored
\* state is the zero state, params is DEFAULT_PARAMS and the history is empty
\* with no update to it left queued; the stored state then stays the zero
\* state until the next integrateRK4 call, which is given the zero state.
C19_Reset ==
    [][/\ last' = "handleReset" =>
              /\ state' = ZeroState
              /\ params' = DEFAULT_PARAMS
              /\ history' = <<>>
              /\ updates' = <<>>
              /\ visualState' = ZeroState
       /\ (state = ZeroState /\ calls' # calls) =>
              (calls'[Len(calls')].state = ZeroState /\ arg' = ZeroState)
       /\ (state = ZeroState /\ calls' = calls) => state' = ZeroState]_vars

\* a reset while running with changed parameters, after six steps and a
\* chart entry, followed by a step from the zero state with DEFAULT_PARAMS
C19_Witness ==
    /\ last = "animate" /\ mode = "SIMULATE"
    /\ Len(calls) > 6
    /\ calls[Len(calls)].state = ZeroState
    /\ calls[Len(calls)].params = DEFAULT_PARAMS
    /\ calls[Len(calls) - 1].params # DEFAULT_PARAMS
    /\ calls[Len(calls) - 1].state.t = Norm(Len(calls) - 2, 100)
    /\ state.t = PHYSICS_DT
    /\ history = <<>>

\* a reset in LEARN mode of a state that had been stepped
C19_LearnCase ==
    /\ last = "handleReset" /\ mode = "LEARN" /\ Len(calls) > 0 /\ state = ZeroState

\* C20: in every reachable state of the application the history holds at
\* most CHART_HISTORY_LENGTH entries.
C20_BoundedHistory == Len(history) <= CHART_HISTORY_LENGTH

\* the history is full and its oldest entry has been dropped for a new one
C20_Witness ==
    /\ Len(history) = CHART_HISTORY_LENGTH
    /\ Len(calls) >= 5 * (CHART_HISTORY_LENGTH + 1)
    /\ history[1].t = ToFixed2(Norm(10, 100))
    /\ history[Len(history)].x1 = Coordinate("x1", 5 * (CHART_HISTORY_LENGTH + 1))

----------------------------------------------------------------------------
(* App: the parameters the integrator is given *)

\* C21: at every integrateRK4 call the application makes, after any slider
\* changes within the sliders' ranges and any resets, m1 > 0 and m2 > 0 in the
\* parameters passed, and in the parameters held for the next call.
C21_PositiveMasses ==
    /\ IsPositive(params.m1) /\ IsPositive(params.m2)
    /\ \A i \in 1..Len(calls) :
           IsPositive(calls[i].params.m1) /\ IsPositive(calls[i].params.m2)

\* a step made with both masses at the least value their sliders allow
C21_Witness ==
    /\ last = "animate"
    /\ calls[Len(calls)].params.m1 = Int2Num(10)
    /\ calls[Len(calls)].params.m2 = Int2Num(1)

\* a step made with DEFAULT_PARAMS again, after a step with a changed mass
\* and a reset
C21_ResetCase ==
    /\ Len(calls) > 1 /\ last = "animate"
    /\ calls[Len(calls)].params = DEFAULT_PARAMS
    /\ calls[Len(calls) - 1].params.m2 = Int2Num(1)

\* C23: after a parameter change while the simulation runs, every
\* integrateRK4 call is passed the parameters as they are at the call: the
\* pending callback is always the animate of the render that holds the
\* current params, never an older one.
C23_LatestParams ==
    /\ \A f \in frames : f.params = params
    /\ (last = "animate" /\ calls # <<>>) => calls[Len(calls)].params = params

\* two sliders were moved while running: three successive steps were made
\* with three different parameter sets, each the latest at its time
C23_Witness ==
    /\ last = "animate" /\ Len(calls) >= 3
    /\ calls[Len(calls) - 2].params = DEFAULT_PARAMS
    /\ calls[Len(calls) - 1].params = [DEFAULT_PARAMS EXCEPT !.m2 = Int2Num(1)]
    /\ calls[Len(calls)].params =
           [DEFAULT_PARAMS EXCEPT !.m2 = Int2Num(1), !.m1 = Int2Num(10)]
    /\ calls[Len(calls)].state.t = Add(calls[Len(calls) - 2].state.t, Norm(2, 100))

----------------------------------------------------------------------------
(* App: one animation loop *)

\* C24: at most one animation frame callback is pending at any time, it is
\* the one requestRef.current names, and it is pending only while the mode is
\* SIMULATE and the simulation is running.
C24_OneLoop ==
    /\ Cardinality(frames) <= 1
    /\ \A f \in frames : f.id = requestRef /\ isRunning /\ mode = "SIMULATE"

\* one callback pending after the loop was started, re-bound by a slider
\* change after two steps and re-bound again by a reset
C24_Witness ==
    /\ Cardinality(frames) = 1 /\ last = "handleReset"
    /\ Len(calls) = 2
    /\ lastId = 5
    /\ calls[2].params # DEFAULT_PARAMS

----------------------------------------------------------------------------
(* App: the chart history *)

\* the state the k-th integrateRK4 call of the run returned
Stepped(k) == Result(calls[k].state, PHYSICS_DT, k)

\* C25: a history entry holds t, x1 and x2 of the state a physics step
\* returned, and is appended exactly for the steps whose index
\* floor(t / PHYSICS_DT) is a multiple of 5: every entry of the history is the
\* entry of such a state.
C25_SampledEveryFifth ==
    \A j \in 1..Len(history) :
        \E k \in 1..Len(calls) :
            Throttle(Stepped(k)) /\ history[j] = Entry(Stepped(k))

\* the hundredths of a second an entry's t shows
Hundredths(e) == 100 * e.t[1] + 10 * e.t[2] + e.t[3]

\* the last n entries of the sequence h
Newest(h, n) == IF Len(h) > n THEN SubSeq(h, Len(h) - n + 1, Len(h)) ELSE h

----------------------------------------------------------------------------
(* App: what changes the stored state *)

\* C27: the stored simulation state changes only by a physics step and by a
\* reset: a slider change, a mode switch, a switch of the 2D/3D view and a
\* render leave it as it is, and the next physics step starts from it.
C27_StateFrame ==
    [][/\ last' \in {"handleChange", "setMode", "setView", "render"} => state' = state
       /\ state' # state => last' \in {"animate", "handleReset"}
       /\ calls' # calls => calls'[Len(calls')].state = state]_vars

\* the simulation was paused after a step and resumed: the next step started
\* from the state the first one returned
C27_Witness ==
    /\ last = "animate" /\ Len(calls) = 2 /\ nevents = 3
    /\ calls[2].state = Stepped(1)
    /\ calls[2].params = DEFAULT_PARAMS
    /\ lastId = 4

\* a step, a slider change and a switch to the 2D view, then a step from the
\* state the first one returned
C27_ViewCase ==
    /\ last = "animate" /\ Len(calls) = 2 /\ view = "2D"
    /\ calls[2].state = Stepped(1)
    /\ calls[2].params # calls[1].params

----------------------------------------------------------------------------
(* Body 2 decoupled, and the total momentum *)

Decoupled ==
    params.k2 = Zero /\ params.b2 = Zero /\ IsPositive(params.m2)

\* C28: with k2 = 0, b2 = 0 and m2 > 0, for any state, dt and other
\* parameters, every evaluate call returns dv2 = 0, a step leaves v2 unchanged
\* and advances x2 by v2 * dt, and a body 2 that starts at x2 = 0, v2 = 0 stays
\* there.
C28_DecoupledBody2 ==
    Decoupled =>
        /\ \A i \in 1..Len(calls) : calls[i].out.dv2 = Zero
        /\ Called => /\ state.v2 = arg.v2
                     /\ state.x2 = Add(arg.x2, Mul(arg.v2, dt))
        /\ (start.x2 = Zero /\ start.v2 = Zero) => (state.x2 = Zero /\ state.v2 = Zero)

\* C28 where body 1 has a mass other than 0
C28_NonzeroM1Case == params.m1 # Zero => C28_DecoupledBody2

\* a decoupled body 2 coasting through two steps beside a driven, moving body 1
C28_MovingCase ==
    /\ Decoupled /\ params.m1 # Zero /\ nsteps = 2
    /\ arg.v2 # Zero /\ dt # Zero
    /\ state.x2 # arg.x2
    /\ state.v1 # arg.v1
    /\ params.forceAmplitude # Zero

Momentum(s) == Add(Mul(params.m1, s.v1), Mul(params.m2, s.v2))

\* C29: in every evaluate call m1*dv1 + m2*dv2 = -k1*x1' - b1*v1' + force(t),
\* with no term in k2 or b2; with k1 = 0, b1 = 0 and forceAmplitude = 0 a step
\* leaves m1*v1 + m2*v2 as it was.  Exact arithmetic: the masses are not 0.
C29_Momentum ==
    (params.m1 # Zero /\ params.m2 # Zero) =>
        /\ \A i \in 1..Len(calls) :
               Add(Mul(params.m1, calls[i].out.dv1), Mul(params.m2, calls[i].out.dv2))
                   = OwnForce1(calls[i])
        /\ (/\ Called
            /\ params.k1 = Zero /\ params.b1 = Zero
            /\ params.forceAmplitude = Zero)
               => Momentum(state) = Momentum(arg)

\* a step with k1 = b1 = 0 and no drive in which the coupling spring and
\* damper changed both velocities and left the total momentum, not 0, as it was
C29_Witness ==
    /\ Called /\ dt # Zero
    /\ params.k1 = Zero /\ params.b1 = Zero /\ params.forceAmplitude = Zero
    /\ params.k2 # Zero /\ params.b2 # Zero
    /\ params.m1 # params.m2
    /\ state.v1 # arg.v1 /\ state.v2 # arg.v2
    /\ Momentum(state) # Zero
    /\ Momentum(state) = Momentum(arg)
    /\ \E i \in 1..Len(calls) : Fk2(calls[i]) # Zero /\ Fb2(calls[i]) # Zero

\* the identity in a call with a negative mass and every force acting
C29_NegativeMassCase ==
    \E i \in 1..Len(calls) :
        /\ params.m1.n < 0
        /\ Fk2(calls[i]) # Zero /\ Fb2(calls[i]) # Zero
        /\ OwnForce1(calls[i]) # Zero
        /\ calls[i].out.dv2 # Zero

----------------------------------------------------------------------------
(* LearnMode: the steps of the force-identification exercise               *)

\* the mass the exercise is asking about
CurrentMass == IF forceStep = 1 THEN "m1" ELSE "m2"

\* every force on the mass tg is selected exactly if it is a correct one
AllRight(fs, tg) ==
    \A i \in DOMAIN fs : fs[i].target = tg => fs[i].selected = fs[i].isCorrect

\* Check Answer: it never moves the step itself; a wrong or missing selection
\* for the current mass gives 'Incorrect' and sets no timeout; a timeout is set
\* only at step 1 with every force on m1 selected exactly if it is correct
CheckAnswer ==
    last' = "validateForces" =>
        /\ forceStep' = forceStep
        /\ ~AllRight(forces, CurrentMass) =>
              feedback' = "Incorrect" /\ timeouts' = timeouts
        /\ AllRight(forces, CurrentMass) => feedback' = "Correct"

\* the step goes from 1 to 2 only in the callback of a timeout, which clears
\* the feedback, and a timeout is set only by a Check Answer at step 1 that
\* finds every force on m1 right
Advance ==
    /\ (forceStep = 1 /\ forceStep' = 2) =>
          /\ last' = "timeout"
          /\ timeouts > 0
          /\ feedback' = "null"
    /\ timeouts' > timeouts =>
          /\ last' = "validateForces"
          /\ forceStep = 1
          /\ AllRight(forces, "m1")

\* C30 as stated: the step advances from 1 to 2 only after a Check Answer at
\* step 1 that finds every force on m1 right, a check with a wrong or missing
\* selection for the current mass gives 'Incorrect' and no advance, the advance
\* comes with a delay and clears the feedback, and once at step 2 the step
\* never returns to 1.  Violated: App mounts LearnMode in LEARN mode only, so
\* leaving LEARN mode and coming back starts a new LearnMode at step 1.
C30_StepNeverReturns ==
    [][/\ CheckAnswer
       /\ Advance
       /\ forceStep = 2 => forceStep' = 2]_vars

\* C30, amended: as above, and once at step 2 the step stays 2 for as long as
\* LearnMode stays mounted; it is 1 again exactly when LEARN mode is entered
\* anew
C30_StepReturnsOnlyOnRemount ==
    [][/\ CheckAnswer
       /\ Advance
       /\ (forceStep = 2 /\ forceStep' # 2) =>
             /\ last' = "setMode"
             /\ mode = "SIMULATE"
             /\ mode' = "LEARN"
             /\ forceStep' = 1]_vars

\* the timeout has moved the exercise to step 2 and cleared the feedback
C30_Witness ==
    /\ mode = "LEARN"
    /\ last = "timeout"
    /\ forceStep = 2
    /\ feedback = "null"
    /\ AllRight(forces, "m1")

\* at step 2 a check with a force on m2 missing has answered 'Incorrect'
C30_IncorrectAtStep2Case ==
    /\ mode = "LEARN"
    /\ last = "validateForces"
    /\ forceStep = 2
    /\ feedback = "Incorrect"
    /\ \E i \in DOMAIN forces :
          forces[i].target = "m2" /\ forces[i].isCorrect /\ ~forces[i].selected

\* a check at step 1 has answered 'Incorrect' while the timeout of an earlier
\* right answer is pending: the step will advance all the same
C30_IncorrectWhilePendingCase ==
    /\ mode = "LEARN"
    /\ last = "validateForces"
    /\ forceStep = 1
    /\ feedback = "Incorrect"
    /\ timeouts > 0

====
